---- MODULE Spec2Model ----
(***************************************************************************)
(* Model of src/convex_hull.py: the turn test `direction` and the          *)
(* monotone-chain procedure `convex_hull`.                                 *)
(*                                                                         *)
(* One call of convex_hull is unfolded into its steps (deduplicate, the    *)
(* trivial-case return, sort, each pop and each append of the two sweeps,  *)
(* the final concatenation).  When the call has returned, the caller may   *)
(* feed the returned list to a second call (convex_hull(convex_hull(S))).  *)
(*                                                                         *)
(* Coordinates are Python ints (unbounded), so no width is modelled.       *)
(* The argument `points` is read only by the set comprehension of line 26, *)
(* which does not depend on the order of the collection: the argument is   *)
(* kept as a bag of Point values.  The iteration order of the Python set   *)
(* `uniq` is not fixed by the language: line 27 may produce the distinct   *)
(* points in any order.                                                    *)
(***************************************************************************)
EXTENDS Integers, Sequences, FiniteSets, Bags, TLC

\* Bounds of the model: coordinates range over 0..MaxX by 0..MaxY and the
\* argument holds at most MaxLen points (repeats counted).
MaxX == 2
MaxY == 2
MaxLen == 4

VARIABLES points, uniq, pts, lower, upper, i, result, pc, round, hull1

vars == <<points, uniq, pts, lower, upper, i, result, pc, round, hull1>>

----------------------------------------------------------------------------
\* class Point: a value with an x and a y field.
Point(x, y) == [x |-> x, y |-> y]

Grid == {Point(x, y) : x \in 0..MaxX, y \in 0..MaxY}

\* The possible arguments: every bag of at most n grid points.
RECURSIVE BagsUpTo(_)
BagsUpTo(n) ==
  IF n = 0 THEN {EmptyBag}
  ELSE LET prev == BagsUpTo(n - 1)
       IN  prev \cup {b (+) SetToBag({p}) : b \in prev, p \in Grid}

Inputs == BagsUpTo(MaxLen)

\* def direction(a, b, c)
direction(a, b, c) == (b.x - a.x) * (c.y - a.y) - (b.y - a.y) * (c.x - a.x)

\* uniq = {(p.x, p.y) for p in points}
UniqOf(coll) == {<<p.x, p.y>> : p \in BagToSet(coll)}

\* The orders in which a set can be iterated.
RECURSIVE Orders(_)
Orders(S) ==
  IF S = {} THEN {<<>>}
  ELSE UNION {{<<e>> \o s : s \in Orders(S \ {e})} : e \in S}

\* pts = [Point(x, y) for (x, y) in uniq], for one iteration order of uniq
MakePtsSwapped(order) == [k \in 1..Len(order) |-> Point(order[k][2], order[k][1])]

MakePts(order) == [k \in 1..Len(order) |-> Point(order[k][1], order[k][2])]

\* if len(pts) <= 1: return pts
TrivialCaseNone(s) == Len(s) < 1

TrivialCaseTwo(s) == Len(s) <= 2

TrivialCase(s) == Len(s) <= 1

\* key=lambda p: (p.x, p.y), compared as Python compares tuples
KeyLessDesc(p, q) == p.x > q.x \/ (p.x = q.x /\ p.y > q.y)

KeyLessXOnly(p, q) == p.x < q.x

KeyLess(p, q) == p.x < q.x \/ (p.x = q.x /\ p.y < q.y)

\* list.sort is a stable sort; it is computed here as an insertion sort
\* that puts each element after the elements whose key is not greater.
RECURSIVE InsertSorted(_, _)
InsertSorted(s, p) ==
  IF s = <<>> THEN <<p>>
  ELSE IF KeyLess(p, Head(s)) THEN <<p>> \o s
       ELSE <<Head(s)>> \o InsertSorted(Tail(s), p)

RECURSIVE SortPts(_)
SortPts(s) ==
  IF s = <<>> THEN <<>>
  ELSE InsertSorted(SortPts(SubSeq(s, 1, Len(s) - 1)), s[Len(s)])

\* while len(chain) >= 2 and direction(chain[-2], chain[-1], p) <= 0
PopCondLt(chain, p) ==
  /\ Len(chain) >= 2
  /\ direction(chain[Len(chain) - 1], chain[Len(chain)], p) < 0

PopCond(chain, p) ==
  /\ Len(chain) >= 2
  /\ direction(chain[Len(chain) - 1], chain[Len(chain)], p) <= 0

\* chain.pop()
Pop(chain) == SubSeq(chain, 1, Len(chain) - 1)

\* for p in pts: the k-th candidate of the lower sweep
LowerCand(s, k) == s[k]

\* for p in reversed(pts): the k-th candidate of the upper sweep
UpperCandForward(s, k) == s[k]

UpperCand(s, k) == s[Len(s) - k + 1]

\* return lower[:-1] + upper[:-1]
CombineNoDrop(lo, up) == lo \o up

Combine(lo, up) == SubSeq(lo, 1, Len(lo) - 1) \o SubSeq(up, 1, Len(up) - 1)

\* The list a call returns, handed to the next call as its argument.
RECURSIVE SeqToBag(_)
SeqToBag(s) ==
  IF s = <<>> THEN EmptyBag
  ELSE SeqToBag(Tail(s)) (+) SetToBag({Head(s)})

----------------------------------------------------------------------------
Init ==
  /\ points \in Inputs
  /\ uniq = {}
  /\ pts = <<>>
  /\ lower = <<>>
  /\ upper = <<>>
  /\ i = 1
  /\ result = <<>>
  /\ pc = "start"
  /\ round = 1
  /\ hull1 = <<>>

\* Lines 26-27: deduplicate, then rebuild Point objects in set order.
Dedup ==
  /\ pc = "start"
  /\ uniq' = UniqOf(points)
  /\ \E order \in Orders(UniqOf(points)) : pts' = MakePts(order)
  /\ pc' = "check"
  /\ UNCHANGED <<points, lower, upper, i, result, round, hull1>>

\* Lines 30-31: zero or one point is returned as it is.
ReturnTrivial ==
  /\ pc = "check"
  /\ TrivialCase(pts)
  /\ result' = pts
  /\ pc' = "done"
  /\ UNCHANGED <<points, uniq, pts, lower, upper, i, round, hull1>>

\* Lines 35 and 38: sort, then start the lower sweep with an empty chain.
Sort ==
  /\ pc = "check"
  /\ ~TrivialCase(pts)
  /\ pts' = SortPts(pts)
  /\ lower' = <<>>
  /\ i' = 1
  /\ pc' = "lower"
  /\ UNCHANGED <<points, uniq, upper, result, round, hull1>>

\* Lines 44-45: one iteration of the while loop of the lower sweep.
LowerPop ==
  /\ pc = "lower"
  /\ i <= Len(pts)
  /\ PopCond(lower, LowerCand(pts, i))
  /\ lower' = Pop(lower)
  /\ UNCHANGED <<points, uniq, pts, upper, i, result, pc, round, hull1>>

\* Line 46: the while loop has ended, the candidate is appended.
LowerAppend ==
  /\ pc = "lower"
  /\ i <= Len(pts)
  /\ ~PopCond(lower, LowerCand(pts, i))
  /\ lower' = Append(lower, LowerCand(pts, i))
  /\ i' = i + 1
  /\ UNCHANGED <<points, uniq, pts, upper, result, pc, round, hull1>>

\* Line 49: the lower sweep is over, the upper sweep starts.
LowerDone ==
  /\ pc = "lower"
  /\ i > Len(pts)
  /\ upper' = <<>>
  /\ i' = 1
  /\ pc' = "upper"
  /\ UNCHANGED <<points, uniq, pts, lower, result, round, hull1>>

\* Lines 51-52: one iteration of the while loop of the upper sweep.
UpperPop ==
  /\ pc = "upper"
  /\ i <= Len(pts)
  /\ PopCond(upper, UpperCand(pts, i))
  /\ upper' = Pop(upper)
  /\ UNCHANGED <<points, uniq, pts, lower, i, result, pc, round, hull1>>

\* Line 53
UpperAppend ==
  /\ pc = "upper"
  /\ i <= Len(pts)
  /\ ~PopCond(upper, UpperCand(pts, i))
  /\ upper' = Append(upper, UpperCand(pts, i))
  /\ i' = i + 1
  /\ UNCHANGED <<points, uniq, pts, lower, result, pc, round, hull1>>

\* The upper sweep is over: both chains are complete.
UpperDone ==
  /\ pc = "upper"
  /\ i > Len(pts)
  /\ pc' = "combine"
  /\ UNCHANGED <<points, uniq, pts, lower, upper, i, result, round, hull1>>

\* Line 58
Return ==
  /\ pc = "combine"
  /\ result' = Combine(lower, upper)
  /\ pc' = "done"
  /\ UNCHANGED <<points, uniq, pts, lower, upper, i, round, hull1>>

\* The caller passes the returned list to a second call of convex_hull.
Rerun ==
  /\ pc = "done"
  /\ round = 1
  /\ hull1' = result
  /\ points' = SeqToBag(result)
  /\ uniq' = {}
  /\ pts' = <<>>
  /\ lower' = <<>>
  /\ upper' = <<>>
  /\ i' = 1
  /\ result' = <<>>
  /\ round' = 2
  /\ pc' = "start"

Next ==
  \/ Dedup
  \/ ReturnTrivial
  \/ Sort
  \/ LowerPop
  \/ LowerAppend
  \/ LowerDone
  \/ UpperPop
  \/ UpperAppend
  \/ UpperDone
  \/ Return
  \/ Rerun

Spec == Init /\ [][Next]_vars

----------------------------------------------------------------------------
\* Vocabulary of the properties.  The order on points and the extreme
\* points are stated here on their own, independently of the sort above.

\* The distinct points of the argument of the current call.
InputSet == BagToSet(points)

Returned == pc = "done"

HullSet == {result[k] : k \in 1..Len(result)}

Nxt(k, n) == IF k = n THEN 1 ELSE k + 1

Prv(k, n) == IF k = 1 THEN n ELSE k - 1

LexLeq(p, q) == p.x < q.x \/ (p.x = q.x /\ p.y <= q.y)

LexMin(S) == CHOOSE p \in S : \A q \in S : LexLeq(p, q)

LexMax(S) == CHOOSE p \in S : \A q \in S : LexLeq(q, p)

AllCollinear(S) == \A a \in S, b \in S, c \in S : direction(a, b, c) = 0

NoRepeat(s) == \A j \in 1..Len(s), k \in 1..Len(s) : s[j] = s[k] => j = k

RangeOf(s) == {s[k] : k \in 1..Len(s)}

\* Every cyclically consecutive triple of s is a strict left turn.
StrictlyConvex(s) ==
  \A k \in 1..Len(s) :
    direction(s[Prv(k, Len(s))], s[k], s[Nxt(k, Len(s))]) > 0

\* Every three consecutive points of an open chain are a strict left turn.
StrictChain(c) ==
  \A k \in 1..(Len(c) - 2) : direction(c[k], c[k + 1], c[k + 2]) > 0

\* Twice the signed area of the polygon s (positive: counter-clockwise).
RECURSIVE Shoelace(_, _)
Shoelace(s, k) ==
  IF k > Len(s) THEN 0
  ELSE s[k].x * s[Nxt(k, Len(s))].y - s[Nxt(k, Len(s))].x * s[k].y
       + Shoelace(s, k + 1)

----------------------------------------------------------------------------
C2_Containment ==
  Returned =>
    \A q \in InputSet : \A k \in 1..Len(result) :
      direction(result[k], result[Nxt(k, Len(result))], q) >= 0

\* A call returned a polygon and pruned an input point that lies on one of
\* its edges.
C2_Witness ==
  /\ Returned
  /\ Len(result) >= 3
  /\ \E q \in InputSet \ HullSet : \E k \in 1..Len(result) :
       direction(result[k], result[Nxt(k, Len(result))], q) = 0

\* C3: every returned point has the coordinate pair of some input point.
C3_Subset ==
  Returned =>
    \A k \in 1..Len(result) :
      \E q \in InputSet : q.x = result[k].x /\ q.y = result[k].y

\* A call returned a hull of an input that is not symmetric in x and y.
C3_Witness ==
  /\ Returned
  /\ Len(result) >= 3
  /\ \E q \in InputSet : Point(q.y, q.x) \notin InputSet

\* C4: no coordinate pair appears twice in the returned sequence.
C4_Deduplication == Returned => NoRepeat(result)

\* A call returned for an argument that repeats a point which is a vertex.
C4_Witness ==
  /\ Returned
  /\ Len(result) >= 3
  /\ \E k \in 1..Len(result) : CopiesIn(result[k], points) >= 2

\* C5: for a non-empty input the returned sequence starts at the
\* lexicographically smallest input point and runs counter-clockwise: the
\* polygon has positive signed area and every other vertex is strictly to
\* the left of each directed edge.
C5_OrientationStart ==
  (Returned /\ InputSet # {}) =>
    /\ Len(result) >= 1
    /\ result[1] = LexMin(InputSet)
    /\ Len(result) >= 3 =>
         /\ Shoelace(result, 1) > 0
         /\ \A k \in 1..Len(result) : \A v \in HullSet :
              v \notin {result[k], result[Nxt(k, Len(result))]} =>
                direction(result[k], result[Nxt(k, Len(result))], v) > 0

\* A call returned a polygon of at least 4 vertices whose start is the
\* leftmost point but not the lowest one.
C5_Witness ==
  /\ Returned
  /\ round = 1
  /\ Len(result) >= 4
  /\ \E q \in InputSet : q.y < result[1].y

\* C6: the second call, made on the sequence the first call returned,
\* returns the same sequence (same points, same start).
C6_Idempotence ==
  (Returned /\ round = 2) =>
    (result = hull1 /\ RangeOf(result) = RangeOf(hull1))

\* The second call returned for a first hull of at least 3 vertices.
C6_Witness ==
  /\ Returned
  /\ round = 2
  /\ Len(hull1) >= 3

\* C7: when the distinct input points, at least 2 of them, are all on one
\* line, exactly the smallest and the largest point are returned.
C7_Collinear ==
  (Returned /\ Cardinality(InputSet) >= 2 /\ AllCollinear(InputSet)) =>
    result = <<LexMin(InputSet), LexMax(InputSet)>>

\* A call returned for at least 3 distinct points on a vertical line.
C7_Witness ==
  /\ Returned
  /\ Cardinality(InputSet) >= 3
  /\ AllCollinear(InputSet)
  /\ \A p \in InputSet, q \in InputSet : p.x = q.x

\* C8: with at most 2 distinct input points the returned sequence holds
\* exactly the distinct points, each once.
C8_SmallInputs ==
  (Returned /\ Cardinality(InputSet) <= 2) =>
    /\ Len(result) = Cardinality(InputSet)
    /\ RangeOf(result) = InputSet

\* A call returned for an argument made of repeats of 2 distinct points.
C8_Witness ==
  /\ Returned
  /\ Cardinality(InputSet) = 2
  /\ BagCardinality(points) >= 4

\* C9: in both sweeps every three consecutive chain points are a strict
\* left turn, a chain is not empty once its first point was appended, and
\* a point is popped only from a chain of at least 2 points whose last two
\* points and the candidate make no strict left turn.
C9_ChainsStrict ==
  /\ StrictChain(lower)
  /\ StrictChain(upper)
  /\ (pc = "lower" /\ i > 1) => Len(lower) >= 1
  /\ (pc = "upper" /\ i > 1) => Len(upper) >= 1

C9_PopStep ==
  /\ (pc = "lower" /\ Len(lower') < Len(lower)) =>
       /\ Len(lower) >= 2
       /\ direction(lower[Len(lower) - 1], lower[Len(lower)], pts[i]) <= 0
       /\ Len(lower') = Len(lower) - 1
  /\ (pc = "upper" /\ Len(upper') < Len(upper)) =>
       /\ Len(upper) >= 2
       /\ direction(upper[Len(upper) - 1], upper[Len(upper)],
                    pts[Len(pts) - i + 1]) <= 0
       /\ Len(upper') = Len(upper) - 1

C9_SweepInvariant == []C9_ChainsStrict /\ [][C9_PopStep]_vars

\* The upper sweep has appended its last candidate; each chain has at
\* least 3 points and each sweep has popped a point.
C9_Witness ==
  /\ pc = "upper"
  /\ i > Len(pts)
  /\ Len(lower) >= 3
  /\ Len(lower) < Len(pts)
  /\ Len(upper) >= 3
  /\ Len(upper) < Len(pts)

\* C10: with at least 2 distinct points, when both sweeps have finished the
\* lower chain runs from the smallest to the largest point and the upper
\* chain from the largest to the smallest, and the returned sequence holds
\* every point of the two chains exactly once.
C10_ChainEndpoints ==
  /\ pc = "combine" =>
       /\ Len(lower) >= 2
       /\ Len(upper) >= 2
       /\ lower[1] = LexMin(InputSet)
       /\ lower[Len(lower)] = LexMax(InputSet)
       /\ upper[1] = LexMax(InputSet)
       /\ upper[Len(upper)] = LexMin(InputSet)
  /\ (Returned /\ Cardinality(InputSet) >= 2) =>
       /\ RangeOf(result) = RangeOf(lower) \cup RangeOf(upper)
       /\ NoRepeat(result)

\* Both sweeps have finished with chains of at least 3 points each.
C10_Witness ==
  /\ pc = "combine"
  /\ Len(lower) >= 3
  /\ Len(upper) >= 3

====
